---- MODULE Spec2Model ----
(***************************************************************************)
(* The focus / hover / read-state machine of CardWithLink                  *)
(* (packages/components/src/components/cards/CardWithLink.tsx).            *)
(*                                                                         *)
(* Every card instance owns the refs isFocusedRef, isHoveredRef and        *)
(* isReadRef, paints its surface imperatively (updateStyles), publishes    *)
(* FOCUS_ON_COLUMN_ITEM claims on the emitter and is told about claims     *)
(* through useIsItemFocused.  Handlers run to completion: one action of    *)
(* this module is one input event with every handler it synchronously      *)
(* triggers.                                                               *)
(***************************************************************************)
EXTENDS Integers, Sequences, FiniteSets, TLC

\* ---------------------------------------------------------------- bounds
NumCards == 3
NumItems == 2
\* timers pending at a time
MaxActivations == 1
\* the step of the clock
TickMs == 250

\* setTimeout(..., 500) in onPress
DelayMs == 500

Cards == 1..NumCards
Items == 1..NumItems
\* A null reference: no surface, no card.
None == << >>

\* The column a card slot lives in: every third slot is in the second column.
columnId(c) == IF c % 3 = 0 THEN "colB" ELSE "colA"

\* The item a slot shows when the list is not recycling its rows.
HomeItem(c) == ((c - 1) % NumItems) + 1

\* Platform.OS and Platform.supportsTouch, fixed at startup.
Platforms ==
  { [OS |-> "web", supportsTouch |-> FALSE],
    [OS |-> "web", supportsTouch |-> TRUE],
    [OS |-> "ios", supportsTouch |-> TRUE] }

VARIABLES
  platform,      \* the Platform record of this run
  isDark,        \* getTheme().isDark
  read,          \* the store: item id -> read flag
  status,        \* card -> "unmounted" | "mounted" | "detached" (refs null,
                 \*         subscriptions not yet torn down)
  item,          \* card -> id of the item prop of the last render
  pressItem,     \* card -> item id captured by the onPress closure
  isFocusedRef,  \* card -> isFocusedRef.current
  isHoveredRef,  \* card -> isHoveredRef.current
  isReadRef,     \* card -> isReadRef.current
  bg,            \* card -> background key last applied to the surface
  opacity,       \* card -> opacity last applied to the focus indicator
  domFocus,      \* << c >> when card c holds platform focus, or None
  acts,          \* the activations so far, with their pending timers
  focusVia,      \* card -> how the card came to be focused
  ev,            \* what the last event did
  probe          \* one remembered paint computation

vars == << platform, isDark, read, status, item, pressItem, isFocusedRef,
           isHoveredRef, isReadRef, bg, opacity, domFocus, acts, focusVia,
           ev, probe >>

\* ------------------------------------------------------------ the paint

\* getCardBackgroundThemeColor({ isDark, isMuted, isHovered }): a colour key
\* that names the variant chosen.
getCardBackgroundThemeColor(dark, isMuted, isHovered) ==
  << "cardBackground", dark, isMuted, isHovered >>

\* The opacity of the focus indicator (lines 110 and 194).
focusIndicatorOpacity(isFocused) ==
  IF ~platform.supportsTouch /\ isFocused THEN 1 ELSE 0

\* ref.current / focusIndicatorRef.current are non-null
refLive(c) == status[c] = "mounted"

\* The FocusClaim a card publishes: { columnId, itemId: item.id }.
Identity(c) == [columnId |-> columnId(c), itemId |-> item[c]]

\* The working copy a handler mutates, with the trace of what it did.
World ==
  [ isFocused |-> isFocusedRef, isHovered |-> isHoveredRef,
    bg |-> bg, opacity |-> opacity, domFocus |-> domFocus,
    emitted |-> << >>, notified |-> {}, painted |-> {}, paints |-> {},
    calls |-> << >>, error |-> FALSE ]

\* The handler's trace grows by one invocation: the function entered, the
\* card it runs on and, for handleFocusChange, its arguments and `changed`.
Call(w, fn, c, value, changed, suppress) ==
  [ w EXCEPT !.calls = Append(@, [ fn |-> fn, card |-> c, value |-> value,
                                   changed |-> changed, suppress |-> suppress ]) ]

\* A paint that keeps the hovered background once it has been applied, and
\* shows the indicator of a hovered card.
PaintOfSticky(w, c) ==
  [ card |-> c, isFocused |-> w.isFocused[c], isHovered |-> w.isHovered[c],
    isRead |-> isReadRef[c], supportsHover |-> ~platform.supportsTouch,
    isDark |-> isDark,
    backgroundColorKey |->
      getCardBackgroundThemeColor(isDark, isReadRef[c],
        w.isHovered[c] \/ (w.bg[c] # None /\ w.bg[c][4])),
    focusRingOpacity |-> focusIndicatorOpacity(w.isFocused[c] \/ w.isHovered[c]) ]

\* One paint computation: the inputs read and the result applied.
PaintOf(w, c) ==
  [ card |-> c, isFocused |-> w.isFocused[c], isHovered |-> w.isHovered[c],
    isRead |-> isReadRef[c], supportsHover |-> ~platform.supportsTouch,
    isDark |-> isDark,
    backgroundColorKey |->
      getCardBackgroundThemeColor(isDark, isReadRef[c], w.isHovered[c]),
    focusRingOpacity |-> focusIndicatorOpacity(w.isFocused[c]) ]

\* updateStyles with the null checks of lines 90 and 107 left out.
updateStylesUnguarded(w, c) ==
  [ Call(w, "updateStyles", c, FALSE, FALSE, FALSE) EXCEPT
             !.bg[c] = PaintOf(w, c).backgroundColorKey,
             !.opacity[c] = << PaintOf(w, c).focusRingOpacity >>,
             !.painted = @ \cup {c},
             !.paints = @ \cup {PaintOf(w, c)},
             !.error = @ \/ ~refLive(c) ]

\* updateStyles (lines 89-114)
updateStyles(w, c) ==
  LET w0 == Call(w, "updateStyles", c, FALSE, FALSE, FALSE)
  IN  IF refLive(c)
        THEN [ w0 EXCEPT !.bg[c] = PaintOf(w, c).backgroundColorKey,
                         !.opacity[c] = << PaintOf(w, c).focusRingOpacity >>,
                         !.painted = @ \cup {c},
                         !.paints = @ \cup {PaintOf(w, c)} ]
        ELSE w0

\* ------------------------------------------------------------- handlers

RECURSIVE handleFocusChange(_, _, _, _), tryFocus(_, _), onFocus(_, _),
          onBlur(_, _), emit(_, _), deliver(_, _, _), notify(_, _, _)

\* handleFocusChange without its closing updateStyles().
handleFocusChangeNoRepaint(w, c, value, disableDomFocus) ==
  LET changed == w.isFocused[c] # value
      w1 == [ Call(w, "handleFocusChange", c, value, changed, disableDomFocus)
                EXCEPT !.isFocused[c] = value ]
  IN  IF platform.OS = "web" /\ value /\ changed /\ ~disableDomFocus
        THEN tryFocus(w1, c)
        ELSE w1

\* handleFocusChange that drives platform focus also when told not to.
handleFocusChangeAlwaysDrives(w, c, value, disableDomFocus) ==
  LET changed == w.isFocused[c] # value
      w1 == [ Call(w, "handleFocusChange", c, value, changed, disableDomFocus)
                EXCEPT !.isFocused[c] = value ]
      w2 == IF platform.OS = "web" /\ value /\ changed
              THEN tryFocus(w1, c)
              ELSE w1
  IN  updateStyles(w2, c)

\* handleFocusChange that writes isFocusedRef after it has driven platform
\* focus, not before.
handleFocusChangeLateSet(w, c, value, disableDomFocus) ==
  LET changed == w.isFocused[c] # value
      w0 == Call(w, "handleFocusChange", c, value, changed, disableDomFocus)
      w1 == IF platform.OS = "web" /\ value /\ changed /\ ~disableDomFocus
              THEN tryFocus(w0, c)
              ELSE w0
  IN  updateStyles([w1 EXCEPT !.isFocused[c] = value], c)

\* handleFocusChange (lines 116-128)
handleFocusChange(w, c, value, disableDomFocus) ==
  LET changed == w.isFocused[c] # value
      w1 == [ Call(w, "handleFocusChange", c, value, changed, disableDomFocus)
                EXCEPT !.isFocused[c] = value ]
      w2 == IF platform.OS = "web" /\ value /\ changed /\ ~disableDomFocus
              THEN tryFocus(w1, c)
              ELSE w1
  IN  updateStyles(w2, c)

\* tryFocus(ref.current): platform focus moves to the card, which blurs the
\* card that held it and focuses this one, both synchronously.
tryFocus(w, c) ==
  LET w0 == Call(w, "tryFocus", c, FALSE, FALSE, FALSE)
  IN  IF ~refLive(c) \/ w.domFocus = << c >>
        THEN w0
        ELSE LET old == w.domFocus
                 w1 == [w0 EXCEPT !.domFocus = << c >>]
                 w2 == IF old # None THEN onBlur(w1, old[1]) ELSE w1
             IN  onFocus(w2, c)

\* onFocus that takes the focus and publishes no claim.
onFocusNoEmit(w, c) ==
  LET w0 == Call(w, "onFocus", c, FALSE, FALSE, FALSE)
  IN  IF w.isFocused[c] THEN w0 ELSE handleFocusChange(w0, c, TRUE, TRUE)

\* onFocus without the early return of line 176.
onFocusUnguarded(w, c) ==
  emit(handleFocusChange(Call(w, "onFocus", c, FALSE, FALSE, FALSE), c, TRUE, TRUE),
       Identity(c))

\* onFocus of the Link (lines 175-184)
onFocus(w, c) ==
  LET w0 == Call(w, "onFocus", c, FALSE, FALSE, FALSE)
  IN  IF w.isFocused[c]
        THEN w0
        ELSE emit(handleFocusChange(w0, c, TRUE, TRUE), Identity(c))

\* onBlur of the Link (lines 185-187)
onBlur(w, c) ==
  handleFocusChange(Call(w, "onBlur", c, FALSE, FALSE, FALSE), c, FALSE, TRUE)

\* emitter.emit('FOCUS_ON_COLUMN_ITEM', claim): synchronous delivery to the
\* subscribers, in registration order.
emit(w, claim) ==
  deliver([w EXCEPT !.emitted = Append(@, claim)], claim, 1)

deliver(w, claim, k) ==
  IF k > NumCards
    THEN w
    ELSE deliver(IF status[k] # "unmounted" THEN notify(w, k, claim) ELSE w,
                 claim, k + 1)

\* useIsItemFocused(columnId, item.id, handleFocusChange) (line 130): the
\* card's callback is told whether the claim names its own identity.
notify(w, k, claim) ==
  handleFocusChange(
    [ Call(w, "notify", k, claim = Identity(k), FALSE, FALSE)
        EXCEPT !.notified = @ \cup {k} ],
    k, claim = Identity(k), FALSE)

\* The hover callback that promotes the card and publishes no claim.
onHoverNoEmit(w, c, isHovered) ==
  IF w.isHovered[c] = isHovered
    THEN Call(w, "onHover", c, isHovered, FALSE, FALSE)
    ELSE LET w1 == [ Call(w, "onHover", c, isHovered, FALSE, FALSE)
                       EXCEPT !.isHovered[c] = isHovered ]
         IN  IF isHovered /\ ~w1.isFocused[c]
               THEN handleFocusChange(w1, c, TRUE, FALSE)
               ELSE updateStyles(w1, c)

\* The hover callback that gives the focus up when the pointer leaves.
onHoverLeaveDefocuses(w, c, isHovered) ==
  IF w.isHovered[c] = isHovered
    THEN Call(w, "onHover", c, isHovered, FALSE, FALSE)
    ELSE LET w1 == [ Call(w, "onHover", c, isHovered, FALSE, FALSE)
                       EXCEPT !.isHovered[c] = isHovered ]
         IN  IF isHovered /\ ~w1.isFocused[c]
               THEN emit(handleFocusChange(w1, c, TRUE, FALSE), Identity(c))
               ELSE IF ~isHovered
                 THEN handleFocusChange(w1, c, FALSE, TRUE)
                 ELSE updateStyles(w1, c)

\* The hover callback without the early return of line 136.
onHoverUnguarded(w, c, isHovered) ==
  LET w1 == [ Call(w, "onHover", c, isHovered, FALSE, FALSE)
                EXCEPT !.isHovered[c] = isHovered ]
  IN  IF isHovered /\ ~w1.isFocused[c]
        THEN emit(handleFocusChange(w1, c, TRUE, FALSE), Identity(c))
        ELSE updateStyles(w1, c)

\* The hover callback that leaves the surface as it is when the pointer
\* leaves.
onHoverLeaveNoRepaint(w, c, isHovered) ==
  IF w.isHovered[c] = isHovered
    THEN Call(w, "onHover", c, isHovered, FALSE, FALSE)
    ELSE LET w1 == [ Call(w, "onHover", c, isHovered, FALSE, FALSE)
                       EXCEPT !.isHovered[c] = isHovered ]
         IN  IF isHovered /\ ~w1.isFocused[c]
               THEN emit(handleFocusChange(w1, c, TRUE, FALSE), Identity(c))
               ELSE IF isHovered THEN updateStyles(w1, c) ELSE w1

\* The hover callback that publishes a claim on every hover-enter it handles.
onHoverAlwaysEmits(w, c, isHovered) ==
  IF w.isHovered[c] = isHovered
    THEN Call(w, "onHover", c, isHovered, FALSE, FALSE)
    ELSE LET w1 == [ Call(w, "onHover", c, isHovered, FALSE, FALSE)
                       EXCEPT !.isHovered[c] = isHovered ]
         IN  IF isHovered
               THEN emit(handleFocusChange(w1, c, TRUE, FALSE), Identity(c))
               ELSE updateStyles(w1, c)

\* The useHover callback (lines 134-152)
onHover(w, c, isHovered) ==
  IF w.isHovered[c] = isHovered
    THEN Call(w, "onHover", c, isHovered, FALSE, FALSE)
    ELSE LET w1 == [ Call(w, "onHover", c, isHovered, FALSE, FALSE)
                       EXCEPT !.isHovered[c] = isHovered ]
             isAlreadyFocused == w1.isFocused[c]
         IN  IF isHovered /\ ~isAlreadyFocused
               THEN emit(handleFocusChange(w1, c, TRUE, FALSE), Identity(c))
               ELSE updateStyles(w1, c)

\* ----------------------------------------------------------- bookkeeping

\* How each card came to be focused, after event `kind` on card c.
ViaAfter(w, kind, c) ==
  [ d \in Cards |->
      IF ~w.isFocused[d] THEN "none"
      ELSE IF isFocusedRef[d] THEN focusVia[d]
      ELSE IF d \in c /\ kind = "hoverEnter" THEN "hover"
      ELSE IF d \in c /\ kind = "nativeFocus" THEN "native"
      ELSE "external" ]

\* The record of a handler event: what it ran on, what held before, and what
\* it published, notified and painted.
EventOf(w, kind, c) ==
  [ kind |-> kind, card |-> c,
    wasFocused |-> \E d \in c : isFocusedRef[d],
    wasHovered |-> \E d \in c : isHoveredRef[d],
    tookFrom |-> {d \in Cards \ c : isFocusedRef[d]},
    tookFromExternal |-> \E d \in Cards \ c :
                           isFocusedRef[d] /\ focusVia[d] = "external",
    enterBefore |->
      IF kind = "hoverLeave" /\ ev.kind = "hoverEnter" /\ ev.card = c
        THEN << [wasFocused |-> ev.wasFocused, wasHovered |-> ev.wasHovered] >>
        ELSE << >>,
    emitted |-> w.emitted, notified |-> w.notified, painted |-> w.painted,
    paints |-> w.paints, calls |-> w.calls, error |-> w.error,
    timer |-> << >>, dispatched |-> << >> ]

\* The refs and surfaces take the handler's result.
Commit(w, kind, c) ==
  /\ isFocusedRef' = w.isFocused
  /\ isHoveredRef' = w.isHovered
  /\ bg' = w.bg
  /\ opacity' = w.opacity
  /\ domFocus' = w.domFocus
  /\ focusVia' = ViaAfter(w, kind, c)
  /\ ev' = EventOf(w, kind, c)

\* The record left by a step that runs no handler of a card.
Idle(kind) ==
  [ kind |-> kind, card |-> {}, wasFocused |-> FALSE, wasHovered |-> FALSE,
    tookFrom |-> {}, tookFromExternal |-> FALSE,
    enterBefore |-> << >>,
    emitted |-> << >>, notified |-> {}, painted |-> {}, paints |-> {},
    calls |-> << >>, error |-> FALSE, timer |-> << >>, dispatched |-> << >> ]

\* No other mounted card of the same column shows item i.
IdentityFree(c, i) ==
  \A d \in Cards \ {c} :
    status[d] # "unmounted" /\ columnId(d) = columnId(c) => item[d] # i

\* ---------------------------------------------------------------- Init

Init ==
  /\ platform \in Platforms
  /\ isDark = FALSE
  /\ read = [i \in Items |-> i % 2 = 0]
  /\ status = [c \in Cards |-> "unmounted"]
  /\ item = [c \in Cards |-> HomeItem(c)]
  /\ pressItem = [c \in Cards |-> HomeItem(c)]
  /\ isFocusedRef = [c \in Cards |-> FALSE]
  /\ isHoveredRef = [c \in Cards |-> FALSE]
  /\ isReadRef = [c \in Cards |-> FALSE]
  /\ bg = [c \in Cards |-> None]
  /\ opacity = [c \in Cards |-> None]
  /\ domFocus = None
  /\ acts = << >>
  /\ focusVia = [c \in Cards |-> "none"]
  /\ ev = Idle("idle")
  /\ probe = {}

\* ------------------------------------------------------------- lifecycle

\* The declarative render of the Link and the focus indicator (lines 156-199):
\* the background prop is computed with isHovered: isFocusedRef.current.
RenderedBackground(c, i) ==
  getCardBackgroundThemeColor(isDark, read[i], isFocusedRef[c])

\* First render of a card instance for item i (lines 48-72, 155-200).
Mount(c, i) ==
  /\ status[c] = "unmounted"
  /\ IdentityFree(c, i)
  /\ status' = [status EXCEPT ![c] = "mounted"]
  /\ item' = [item EXCEPT ![c] = i]
  /\ pressItem' = [pressItem EXCEPT ![c] = i]
  /\ isFocusedRef' = [isFocusedRef EXCEPT ![c] = FALSE]
  /\ isHoveredRef' = [isHoveredRef EXCEPT ![c] = FALSE]
  /\ isReadRef' = [isReadRef EXCEPT ![c] = read[i]]
  /\ bg' = [bg EXCEPT ![c] = getCardBackgroundThemeColor(isDark, read[i], FALSE)]
  /\ opacity' = [opacity EXCEPT ![c] = << focusIndicatorOpacity(FALSE) >>]
  /\ focusVia' = [focusVia EXCEPT ![c] = "none"]
  /\ ev' = Idle("idle")
  /\ UNCHANGED << platform, isDark, read, domFocus, acts >>

\* A later render, with the item prop the parent passes now (lines 55-72 and
\* 155-200): isReadRef follows cardProps.isRead, the onPress closure stays.
Render(c, i) ==
  /\ status[c] = "mounted"
  /\ IdentityFree(c, i)
  /\ item' = [item EXCEPT ![c] = i]
  /\ isReadRef' = [isReadRef EXCEPT ![c] = read[i]]
  /\ bg' = [bg EXCEPT ![c] = RenderedBackground(c, i)]
  /\ opacity' = [opacity EXCEPT ![c] = << focusIndicatorOpacity(isFocusedRef[c]) >>]
  /\ ev' = Idle("idle")
  /\ UNCHANGED << platform, isDark, read, status, pressItem, isFocusedRef,
                  isHoveredRef, domFocus, acts, focusVia >>

\* Unmount, first half: React nulls ref and focusIndicatorRef. The timers
\* the instance started stay scheduled: onPress keeps no handle to clear.
DetachRefs(c) ==
  /\ status[c] = "mounted"
  /\ status' = [status EXCEPT ![c] = "detached"]
  /\ bg' = [bg EXCEPT ![c] = None]
  /\ opacity' = [opacity EXCEPT ![c] = None]
  /\ domFocus' = IF domFocus = << c >> THEN None ELSE domFocus
  /\ acts' = [a \in DOMAIN acts |->
               IF acts[a].card = c /\ acts[a].remaining > 0
                 THEN [acts[a] EXCEPT !.orphaned = TRUE]
                 ELSE acts[a]]
  /\ ev' = Idle("idle")
  /\ UNCHANGED << platform, isDark, read, item, pressItem, isFocusedRef,
                  isHoveredRef, isReadRef, focusVia >>

\* Unmount, second half: the hooks' cleanups release the subscriptions and
\* the instance is gone.
Unsubscribe(c) ==
  /\ status[c] = "detached"
  /\ status' = [status EXCEPT ![c] = "unmounted"]
  /\ item' = [item EXCEPT ![c] = HomeItem(c)]
  /\ pressItem' = [pressItem EXCEPT ![c] = HomeItem(c)]
  /\ isFocusedRef' = [isFocusedRef EXCEPT ![c] = FALSE]
  /\ isHoveredRef' = [isHoveredRef EXCEPT ![c] = FALSE]
  /\ isReadRef' = [isReadRef EXCEPT ![c] = FALSE]
  /\ focusVia' = [focusVia EXCEPT ![c] = "none"]
  /\ ev' = Idle("idle")
  /\ UNCHANGED << platform, isDark, read, bg, opacity, domFocus, acts >>

\* ---------------------------------------------------------- input events

\* The pointer enters the card's root region (useHover, pointer platforms).
HoverEnter(c) ==
  /\ ~platform.supportsTouch
  /\ status[c] = "mounted"
  /\ Commit(onHover(World, c, TRUE), "hoverEnter", {c})
  /\ UNCHANGED << platform, isDark, read, status, item, pressItem, isReadRef, acts >>

\* The pointer leaves the card's root region.
HoverLeave(c) ==
  /\ ~platform.supportsTouch
  /\ status[c] = "mounted"
  /\ Commit(onHover(World, c, FALSE), "hoverLeave", {c})
  /\ UNCHANGED << platform, isDark, read, status, item, pressItem, isReadRef, acts >>

\* The user moves platform focus to the card: the holder, if a card, is
\* blurred first, then the card's onFocus runs.
NativeFocus(c) ==
  /\ status[c] = "mounted"
  /\ domFocus # << c >>
  /\ LET w1 == [World EXCEPT !.domFocus = << c >>]
         w2 == IF domFocus # None THEN onBlur(w1, domFocus[1]) ELSE w1
     IN  Commit(onFocus(w2, c), "nativeFocus", {c})
  /\ UNCHANGED << platform, isDark, read, status, item, pressItem, isReadRef, acts >>

\* Platform focus leaves the card for something that is not a card.
NativeBlur(c) ==
  /\ status[c] = "mounted"
  /\ domFocus = << c >>
  /\ Commit(onBlur([World EXCEPT !.domFocus = None], c), "nativeBlur", {c})
  /\ UNCHANGED << platform, isDark, read, status, item, pressItem, isReadRef, acts >>

\* Another component (keyboard navigation of a column) publishes a claim;
\* every subscribed card is notified through useIsItemFocused.
ExternalEmit(col, i) ==
  /\ LET claim == [columnId |-> col, itemId |-> i]
         target == {c \in Cards : status[c] # "unmounted" /\ Identity(c) = claim}
     IN  Commit(emit(World, claim), "notification", target)
  /\ UNCHANGED << platform, isDark, read, status, item, pressItem, isReadRef, acts >>

\* The theme is switched: getTheme() returns the other theme from now on.
ThemeChange ==
  /\ isDark' = ~isDark
  /\ ev' = Idle("idle")
  /\ UNCHANGED << platform, read, status, item, pressItem, isFocusedRef,
                  isHoveredRef, isReadRef, bg, opacity, domFocus, acts, focusVia >>

\* onPress (lines 74-87): the hover flag is cleared and the read-mark is put
\* on a 500 ms timer. The closure is the one of the first render (useCallback
\* with no dependencies), so item.id is the id the instance mounted with.
onPress(w, c) ==
  [ Call(w, "onPress", c, FALSE, FALSE, FALSE) EXCEPT !.isHovered[c] = FALSE ]

Press(c) ==
  /\ status[c] = "mounted"
  /\ Len(acts) < MaxActivations
  /\ Commit(onPress(World, c), "press", {c})
  /\ acts' = Append(acts, [ card |-> c, orphaned |-> FALSE,
                            itemIds |-> << pressItem[c] >>, shown |-> item[c],
                            remaining |-> DelayMs ])
  /\ UNCHANGED << platform, isDark, read, status, item, pressItem, isReadRef >>

\* TickMs of time pass; a timer that is due fires before more time passes.
Tick ==
  /\ acts # << >>
  /\ \A a \in DOMAIN acts : acts[a].remaining > 0
  /\ acts' = [a \in DOMAIN acts |->
               [acts[a] EXCEPT !.remaining = IF @ > TickMs THEN @ - TickMs ELSE 0]]
  /\ ev' = Idle("idle")
  /\ UNCHANGED << platform, isDark, read, status, item, pressItem, isFocusedRef,
                  isHoveredRef, isReadRef, bg, opacity, domFocus, focusVia >>

\* The payload of the command the timer callback dispatches (lines 79-84).
markItemsAsReadOrUnread(t) ==
  [ itemIds |-> t.itemIds, localOnly |-> TRUE, unread |-> FALSE ]

\* The oldest timer is due: its callback dispatches the command, and the
\* store marks the items read. Nothing asks whether the card still exists.
TimerFire ==
  /\ acts # << >>
  /\ Head(acts).remaining = 0
  /\ acts' = Tail(acts)
  /\ read' = [i \in Items |-> read[i] \/ i = Head(acts).itemIds[1]]
  /\ ev' = [Idle("dispatch") EXCEPT
               !.timer = << Head(acts) >>,
               !.dispatched = << markItemsAsReadOrUnread(Head(acts)) >>]
  /\ UNCHANGED << platform, isDark, status, item, pressItem, isFocusedRef,
                  isHoveredRef, isReadRef, bg, opacity, domFocus, focusVia >>

\* The focus and paint machine. The clock stands still here, so the timers
\* that activations start stay pending; ReadSpec runs them.
Next ==
  \/ \E c \in Cards : Mount(c, HomeItem(c)) /\ UNCHANGED probe
  \/ \E c \in Cards : Render(c, item[c]) /\ UNCHANGED probe
  \/ \E c \in Cards : DetachRefs(c) /\ UNCHANGED probe
  \/ \E c \in Cards : Unsubscribe(c) /\ UNCHANGED probe
  \/ \E c \in Cards : HoverEnter(c) /\ UNCHANGED probe
  \/ \E c \in Cards : HoverLeave(c) /\ UNCHANGED probe
  \/ \E c \in Cards : NativeFocus(c) /\ UNCHANGED probe
  \/ \E c \in Cards : NativeBlur(c) /\ UNCHANGED probe
  \/ \E c \in Cards : ExternalEmit(columnId(c), HomeItem(c)) /\ UNCHANGED probe
  \/ \E c \in Cards : Press(c) /\ UNCHANGED probe

Spec == Init /\ [][Next]_vars

\* The cards of the first column, whose rows are recycled in ReadSpec.
ReadCards == {c \in Cards : c <= 2}

\* The deferred read-mark: rows are recycled (a card is rendered again with
\* another item), cards are activated and unmounted, time passes.
ReadNext ==
  \/ \E c \in ReadCards, i \in Items : Mount(c, i) /\ UNCHANGED probe
  \/ \E c \in ReadCards, i \in Items : Render(c, i) /\ UNCHANGED probe
  \/ \E c \in ReadCards : DetachRefs(c) /\ UNCHANGED probe
  \/ \E c \in ReadCards : Unsubscribe(c) /\ UNCHANGED probe
  \/ \E c \in ReadCards : Press(c) /\ UNCHANGED probe
  \/ Tick /\ UNCHANGED probe
  \/ TimerFire /\ UNCHANGED probe

ReadSpec == Init /\ [][ReadNext]_vars

\* Cards of both columns, which may show the same item.
PaintCards == {c \in Cards : c >= 2}

\* probe keeps the paint computation it holds or takes one of this step.
Sample == probe' = probe \/ \E o \in ev'.paints : probe' = {o}

\* The paint computations of a run in which the theme may be switched; one
\* earlier computation is kept in probe to compare the later ones with.
PaintNext ==
  \/ \E c \in PaintCards, i \in Items : Mount(c, i) /\ UNCHANGED probe
  \/ \E c \in PaintCards : Render(c, item[c]) /\ UNCHANGED probe
  \/ \E c \in PaintCards : HoverEnter(c) /\ Sample
  \/ \E c \in PaintCards : HoverLeave(c) /\ Sample
  \/ \E c \in PaintCards : NativeFocus(c) /\ Sample
  \/ \E c \in PaintCards : NativeBlur(c) /\ Sample
  \/ \E c \in PaintCards : ExternalEmit(columnId(c), HomeItem(c)) /\ Sample
  \/ ThemeChange /\ UNCHANGED probe

PaintSpec == Init /\ [][PaintNext]_vars

\* --------------------------------------------------------------- claims

HandlerKinds ==
  {"hoverEnter", "hoverLeave", "nativeFocus", "nativeBlur", "press", "notification"}

Instances == {c \in Cards : status[c] # "unmounted"}

\* C1 (Exclusivity): after every event has run to completion, at most one
\* card instance has isFocused = true, whatever the columns of the cards.
C1_Exclusivity ==
  Cardinality({c \in Instances : isFocusedRef[c]}) <= 1

\* A handler took the focus from a card of the same column or of the other
\* one, with all the cards mounted.
C1_Witness ==
  /\ \A c \in Cards : status[c] = "mounted"
  /\ ev.kind \in {"hoverEnter", "nativeFocus", "notification"}
  /\ \E a \in ev.tookFrom, b \in Cards :
       /\ a # b /\ isFocusedRef[b] /\ ~isFocusedRef[a]
       /\ columnId(a) = columnId(b)

\* C2 (Focus handoff): when A is focused through an external focus change
\* and B, neither hovered nor focused, gets onHover(true), then B is focused,
\* a FocusClaim naming B was published, and A was notified and is not focused.
C2_FocusHandoff ==
  \A b \in ev.card :
    ( /\ ev.kind = "hoverEnter"
      /\ ~ev.wasFocused /\ ~ev.wasHovered
      /\ ev.tookFromExternal )
    => /\ isFocusedRef[b]
       /\ ev.emitted = << Identity(b) >>
       /\ \A a \in ev.tookFrom : a \in ev.notified /\ ~isFocusedRef[a]

C2_Witness ==
  /\ ev.kind = "hoverEnter"
  /\ ~ev.wasFocused /\ ~ev.wasHovered
  /\ ev.tookFromExternal
  /\ \E b \in ev.card, a \in ev.tookFrom : isFocusedRef[b] /\ ~isFocusedRef[a]

\* C3 as stated (Hover-out never clears focus): onHover(true) followed by
\* onHover(false) on a card leaves isFocused at the value it had before the
\* onHover(true).
C3_HoverPairRestores ==
  \A c \in ev.card :
    (ev.kind = "hoverLeave" /\ ev.enterBefore # << >>)
    => isFocusedRef[c] = ev.enterBefore[1].wasFocused

\* C3 amended: onHover(false) leaves isFocused as it finds it, so after
\* onHover(true), onHover(false) the card is focused exactly if it was
\* focused before the pair or the onHover(true) promoted it (it was not
\* hovered yet).
C3_HoverLeaveKeepsFocus ==
  \A c \in ev.card :
    ev.kind = "hoverLeave"
    => /\ isFocusedRef[c] = ev.wasFocused
       /\ ev.enterBefore # << >>
          => isFocusedRef[c] = ( \/ ev.enterBefore[1].wasFocused
                                 \/ ~ev.enterBefore[1].wasHovered )

\* The pair ran on a card that was neither focused nor hovered.
C3_Witness ==
  /\ ev.kind = "hoverLeave"
  /\ ev.wasHovered
  /\ ev.enterBefore # << >>
  /\ ~ev.enterBefore[1].wasFocused /\ ~ev.enterBefore[1].wasHovered
  /\ \E c \in ev.card : isFocusedRef[c] /\ ~isHoveredRef[c]

\* C4 (Deferred read-mark cancellation): an activation whose card is
\* unmounted before the 500 ms have elapsed dispatches nothing.
C4_CancelOnUnmount ==
  ev.kind = "dispatch" => ~ev.timer[1].orphaned

\* C5 (Deferred read-mark delivery): the timer of an activation of a card
\* that stays mounted dispatches, once and not before the delay has elapsed,
\* { itemIds: [the id of the item activated], unread: false, localOnly: true }.
C5_Delivery ==
  /\ \A a \in DOMAIN acts : acts[a].remaining <= DelayMs
  /\ (ev.kind = "dispatch" /\ ~ev.timer[1].orphaned)
     => /\ ev.timer[1].remaining = 0
        /\ ev.dispatched = << [ itemIds |-> << ev.timer[1].shown >>,
                                localOnly |-> TRUE, unread |-> FALSE ] >>

\* C6 (Hover promotion): onHover(true) on an unread card that is neither
\* focused nor hovered sets isHovered and isFocused, publishes exactly the
\* claim {columnId, itemId} of the card, and paints the hovered background.
C6_HoverPromotion ==
  \A c \in ev.card :
    ( /\ ev.kind = "hoverEnter"
      /\ ~ev.wasFocused /\ ~ev.wasHovered /\ ~isReadRef[c] )
    => /\ isHoveredRef[c] /\ isFocusedRef[c]
       /\ ev.emitted = << [columnId |-> columnId(c), itemId |-> item[c]] >>
       /\ c \in ev.painted
       /\ bg[c] = getCardBackgroundThemeColor(isDark, FALSE, TRUE)

C6_Witness ==
  /\ ev.kind = "hoverEnter"
  /\ ~ev.wasFocused /\ ~ev.wasHovered
  /\ ~platform.supportsTouch
  /\ \E c \in ev.card : ~isReadRef[c] /\ isFocusedRef[c] /\ c \in ev.painted

SameState(o, p) ==
  /\ o.isFocused = p.isFocused /\ o.isHovered = p.isHovered
  /\ o.isRead = p.isRead /\ o.supportsHover = p.supportsHover

SameResult(o, p) ==
  /\ o.backgroundColorKey = p.backgroundColorKey
  /\ o.focusRingOpacity = p.focusRingOpacity

\* C7 as stated (Paint purity): two paint computations with the same
\* (isFocused, isHovered, isRead, pointer capability) give the same
\* {backgroundColorKey, focusRingOpacity}, and the opacity is 0 when
\* isFocused is false.
C7_PaintPure ==
  /\ \A o \in ev.paints : \A p \in probe \cup ev.paints :
       SameState(o, p) => SameResult(o, p)
  /\ \A o \in ev.paints : ~o.isFocused => o.focusRingOpacity = 0

\* C7 amended: the paint is a function of (isFocused, isHovered, isRead,
\* pointer capability) and of the theme in force (getTheme().isDark); the
\* opacity is 0 when isFocused is false.
C7_PaintPureGivenTheme ==
  /\ \A o \in ev.paints : \A p \in probe \cup ev.paints :
       (SameState(o, p) /\ o.isDark = p.isDark) => SameResult(o, p)
  /\ \A o \in ev.paints : ~o.isFocused => o.focusRingOpacity = 0

\* A card paints with the inputs another card painted with earlier, and a
\* card paints while not focused.
C7_Witness ==
  /\ \E o \in ev.paints, p \in probe :
       o.card # p.card /\ SameState(o, p) /\ o.isDark = p.isDark
  /\ \E o \in ev.paints : ~o.isFocused

\* The paint updateStyles computes from the refs as they are now.
PaintNow(c) ==
  [ backgroundColor |->
      getCardBackgroundThemeColor(isDark, isReadRef[c], isHoveredRef[c]),
    opacity |-> << focusIndicatorOpacity(isFocusedRef[c]) >> ]

\* C8 (Paint consistency at handler boundaries): after a handler has run on
\* a mounted card, the background and the opacity applied to it are the
\* paint of its current (isFocused, isHovered, isRead).
C8_PaintConsistent ==
  \A c \in ev.card \cup ev.notified :
    (ev.kind \in HandlerKinds /\ status[c] = "mounted")
    => bg[c] = PaintNow(c).backgroundColor /\ opacity[c] = PaintNow(c).opacity

\* C9 (Touch-only surfaces): on a touch platform no card is ever hovered, no
\* background applied is the hovered variant, and every opacity applied is 0.
C9_TouchOnly ==
  platform.supportsTouch
  => \A c \in Cards :
       /\ ~isHoveredRef[c]
       /\ bg[c] # None => ~bg[c][4]
       /\ opacity[c] # None => opacity[c] = << 0 >>

HandlerFns == {"onHover", "onFocus", "onBlur", "notify", "onPress"}

\* The invocations of fn in the chain of the last event.
CallsOf(fn) == {k \in DOMAIN ev.calls : ev.calls[k].fn = fn}

HandlerCalls == {k \in DOMAIN ev.calls : ev.calls[k].fn \in HandlerFns}

\* C11 (Re-entrant publish terminates): the chain of handler invocations an
\* input event starts is finite. It holds at most the handler of the event,
\* one native blur and one native focus caused by driving platform focus, and
\* one notification per card; no claim is published while a claim is being
\* delivered.
C11_ChainFinite ==
  /\ Cardinality(HandlerCalls) <= NumCards + 3
  /\ Len(ev.emitted) <= 1
  /\ \A fn \in {"onHover", "onFocus", "onBlur", "tryFocus"} :
       Cardinality(CallsOf(fn)) <= 1

\* A hover-enter drove platform focus away from another card: the chain ran
\* that card's onBlur, this card's onFocus, the publish, and the notification
\* of every card.
C11_Witness ==
  /\ ev.kind = "hoverEnter"
  /\ CallsOf("tryFocus") # {} /\ CallsOf("onBlur") # {} /\ CallsOf("onFocus") # {}
  /\ Len(ev.emitted) = 1
  /\ Cardinality(CallsOf("notify")) = NumCards


\* The invocation that follows invocation k is tryFocus on the same card.
DrovePlatformFocus(k) ==
  /\ k + 1 \in DOMAIN ev.calls
  /\ ev.calls[k + 1].fn = "tryFocus"
  /\ ev.calls[k + 1].card = ev.calls[k].card

\* The last handleFocusChange of the chain that ran on card c.
LastFocusChange(c) ==
  LET ks == {k \in CallsOf("handleFocusChange") : ev.calls[k].card = c}
  IN  CHOOSE k \in ks : \A j \in ks : j <= k

\* C12 (Platform focus sync condition): every handleFocusChange(value,
\* suppress) leaves isFocused = value and calls updateStyles; it calls
\* tryFocus exactly if the platform is web, value is true, value differs from
\* the previous isFocused and suppress is not set. onFocus and onBlur pass
\* suppress = true, and an event that starts as a native focus or blur never
\* drives platform focus.
C12_FocusSync ==
  /\ \A k \in CallsOf("handleFocusChange") :
       LET e == ev.calls[k]
       IN  /\ DrovePlatformFocus(k)
              <=> (platform.OS = "web" /\ e.value /\ e.changed /\ ~e.suppress)
           /\ \E j \in CallsOf("updateStyles") : j > k /\ ev.calls[j].card = e.card
           /\ isFocusedRef[e.card] = ev.calls[LastFocusChange(e.card)].value
           /\ ev.calls[k - 1].fn \in {"onFocus", "onBlur"} => e.suppress
  /\ \A k \in CallsOf("tryFocus") : ev.calls[k - 1].fn = "handleFocusChange"
  /\ ev.kind \in {"nativeFocus", "nativeBlur"} => CallsOf("tryFocus") = {}

\* A focus notification made a card drive platform focus to itself, which
\* took it from another card: that card's onBlur and this card's onFocus ran
\* inside the handler, with suppress set.
C12_Witness ==
  /\ ev.kind = "notification"
  /\ platform.OS = "web"
  /\ \E k \in CallsOf("handleFocusChange") :
       DrovePlatformFocus(k) /\ domFocus = << ev.calls[k].card >>
  /\ \E k \in CallsOf("handleFocusChange") :
       ev.calls[k].suppress /\ ~ev.calls[k].value /\ ev.calls[k - 1].fn = "onBlur"


\* The state of card d is the same before and after the step.
CardUntouched(d) ==
  /\ isFocusedRef'[d] = isFocusedRef[d]
  /\ isHoveredRef'[d] = isHoveredRef[d]
  /\ isReadRef'[d] = isReadRef[d]
  /\ bg'[d] = bg[d]
  /\ opacity'[d] = opacity[d]

\* The step is the event `kind` on card c.
StepOf(kind, c) == ev'.kind = kind /\ ev'.card = {c}

\* C13 (Repeated hover-enter): onHover(true) on a hovered card changes no
\* state, repaints nothing and publishes nothing; onHover(true) on a card
\* that is focused and not hovered sets isHovered, repaints with the hovered
\* background, leaves isFocused true and publishes nothing.
C13_RepeatedHoverEnter ==
  [][ \A c \in Cards :
        StepOf("hoverEnter", c)
        => /\ isHoveredRef[c]
              => /\ \A d \in Cards : CardUntouched(d)
                 /\ domFocus' = domFocus
                 /\ ev'.painted = {} /\ ev'.emitted = << >>
                 /\ CallsOf("updateStyles")' = {}
           /\ (~isHoveredRef[c] /\ isFocusedRef[c])
              => /\ isHoveredRef'[c] /\ isFocusedRef'[c]
                 /\ ev'.painted = {c}
                 /\ bg'[c] = getCardBackgroundThemeColor(isDark, isReadRef[c], TRUE)
                 /\ opacity'[c] = << focusIndicatorOpacity(TRUE) >>
                 /\ ev'.emitted = << >> /\ ev'.notified = {}
                 /\ \A d \in Cards \ {c} : CardUntouched(d) ]_vars

\* A hover-enter reached a card that was hovered and not focused (another
\* card had taken the focus), and the card stayed as it was.
C13_Witness ==
  /\ ev.kind = "hoverEnter"
  /\ ev.wasHovered /\ ~ev.wasFocused
  /\ CallsOf("onHover") # {}
  /\ \E c \in ev.card : isHoveredRef[c] /\ ~isFocusedRef[c]
  /\ \E d \in Cards \ ev.card : isFocusedRef[d]

\* C14 (Hover-leave frame): onHover(false) on a hovered card sets isHovered
\* to false and repaints, leaves the card's isFocused and isRead and every
\* other card's state unchanged, and publishes nothing.
C14_HoverLeaveFrame ==
  [][ \A c \in Cards :
        (StepOf("hoverLeave", c) /\ isHoveredRef[c])
        => /\ ~isHoveredRef'[c]
           /\ ev'.painted = {c}
           /\ bg'[c] = getCardBackgroundThemeColor(isDark, isReadRef[c], FALSE)
           /\ opacity'[c] = << focusIndicatorOpacity(isFocusedRef[c]) >>
           /\ isFocusedRef'[c] = isFocusedRef[c]
           /\ isReadRef'[c] = isReadRef[c]
           /\ \A d \in Cards \ {c} : CardUntouched(d)
           /\ domFocus' = domFocus
           /\ ev'.emitted = << >> /\ ev'.notified = {} ]_vars

\* The pointer left a hovered, focused card while other cards were mounted.
C14_Witness ==
  /\ ev.kind = "hoverLeave"
  /\ ev.wasHovered /\ ev.wasFocused
  /\ \E c \in ev.card : ~isHoveredRef[c] /\ isFocusedRef[c] /\ c \in ev.painted
  /\ \E d \in Cards \ ev.card : status[d] = "mounted"


\* The claims the cards published in the last event: everything emitted,
\* less the claim of the other component that a notification event starts with.
Published == IF ev.kind = "notification" THEN Tail(ev.emitted) ELSE ev.emitted

\* C15 (Broadcast only on a local gain of focus): a card publishes a
\* FocusClaim only in a hover-enter or native onFocus event in which it goes
\* from not focused to focused, and then it publishes its own identity; native
\* onFocus on a focused card, native onBlur, hover-leave, activation and
\* a focus notification publish nothing.
C15_BroadcastOnlyOnLocalGain ==
  /\ Published # << >>
     => /\ ev.kind \in {"hoverEnter", "nativeFocus"}
        /\ ~ev.wasFocused
        /\ \A c \in ev.card : isFocusedRef[c] /\ Published = << Identity(c) >>
  /\ ( \/ ev.kind \in {"nativeBlur", "hoverLeave", "press", "notification"}
       \/ (ev.kind = "nativeFocus" /\ ev.wasFocused) )
     => Published = << >>

\* Native focus reached a card that was already focused (through hover or a
\* notification): its onFocus ran and published nothing.
C15_Witness ==
  /\ ev.kind = "nativeFocus"
  /\ ev.wasFocused
  /\ \E k \in CallsOf("onFocus") : ev.calls[k].card \in ev.card
  /\ \E c \in ev.card : domFocus = << c >> /\ isFocusedRef[c]
  /\ ev.emitted = << >>

\* Invocation k of onFocus went on to handleFocusChange (it did not return
\* at line 176).
FocusHandled(k) ==
  /\ k + 1 \in DOMAIN ev.calls
  /\ ev.calls[k + 1].fn = "handleFocusChange"
  /\ ev.calls[k + 1].card = ev.calls[k].card

\* C16 (Exactly one claim per promotion): a hover-enter on a card that is
\* neither focused nor hovered publishes exactly one FocusClaim, the card's
\* own; when driving platform focus inside handleFocusChange runs the card's
\* onFocus, that onFocus returns without publishing.
C16_OneClaimPerPromotion ==
  \A c \in ev.card :
    (ev.kind = "hoverEnter" /\ ~ev.wasFocused /\ ~ev.wasHovered)
    => /\ Len(ev.emitted) = 1
       /\ ev.emitted[1] = Identity(c)
       /\ \A k \in CallsOf("onFocus") : ev.calls[k].card = c => ~FocusHandled(k)

\* On web the promotion drove platform focus and the card's own onFocus ran
\* inside handleFocusChange, before the hover handler published.
C16_Witness ==
  /\ ev.kind = "hoverEnter" /\ ~ev.wasFocused /\ ~ev.wasHovered
  /\ platform.OS = "web"
  /\ \E c \in ev.card :
       /\ \E k \in CallsOf("onFocus") : ev.calls[k].card = c
       /\ domFocus = << c >>
       /\ ev.emitted = << Identity(c) >>

\* C17 (Read-mark targets the displayed item): the command dispatched after
\* an activation carries the id of the item the card was displaying when it
\* was activated, also when the item prop was replaced after the first render.
C17_TargetsDisplayedItem ==
  ev.kind = "dispatch" => ev.dispatched[1].itemIds = << ev.timer[1].shown >>

\* The background the declarative render computes for card c (line 161-167).
DeclarativeBackground(c) == RenderedBackground(c, item[c])

\* C18 (Render path and imperative path agree): for every mounted card whose
\* isRead is the store's flag, the background key of the declarative render
\* equals the one updateStyles computes from the same state, and so does the
\* opacity of the focus indicator.
C18_RenderAgrees ==
  \A c \in Cards :
    (status[c] = "mounted" /\ isReadRef[c] = read[item[c]])
    => /\ DeclarativeBackground(c) = PaintNow(c).backgroundColor
       /\ << focusIndicatorOpacity(isFocusedRef[c]) >> = PaintNow(c).opacity


TypeOK ==
  /\ status \in [Cards -> {"unmounted", "mounted", "detached"}]
  /\ isFocusedRef \in [Cards -> BOOLEAN]
  /\ isHoveredRef \in [Cards -> BOOLEAN]
  /\ domFocus \in {None} \cup {<< c >> : c \in Cards}
====
